---- MODULE Spec2Model ----
(***************************************************************************)
(* One WebSocket session of the audio streaming server (src/main.go):     *)
(* the receive loop of handleWebSocket, the streamAudio goroutines it     *)
(* spawns, the Client they share and the frames written on the            *)
(* connection.                                                            *)
(*                                                                         *)
(* Granularity.  A step holds at most one access to the memory the        *)
(* goroutines share without protection (client.streaming, client.stopCh,  *)
(* the state of a channel), so every order in which they can see each     *)
(* other's writes is a behaviour of the model.  What a goroutine does on   *)
(* its own (the file system, its locals, formatting) is folded into the    *)
(* shared step before it.  A mutex acquisition is a step guarded by the    *)
(* mutex being free; the frame write and the Unlock after it are one step. *)
(***************************************************************************)
EXTENDS Integers, Sequences, FiniteSets, TLC

(* ------------------------------ bounds -------------------------------- *)

\* len(buffer) of the single-shot handler, scaled down (4096 in
\* src/backend/main.go:149)
BackendChunkSize == 2

\* number of file errors (os.Open, file.Read) raised on one connection to the
\* single-shot handler
BackendFaults == 1

\* number of messages the peer sends to the single-shot handler
MaxSent == 2

\* number of streamAudio goroutines one session may spawn in a run without
\* failures of the file system or the connection
MaxWorkers == 2

\* number of streamAudio goroutines one session may spawn in a run with them
MaxSolo == 1

\* number of start messages with an empty filename read in a run
MaxEmpty == 1

\* number of file errors (os.Open, file.Read) the file system raises in a run
MaxFaults == 1

\* len(buffer) of streamAudio, scaled down (8192 in src/main.go:246)
ChunkSize == 2

(* ------------------------- resources on disk -------------------------- *)

\* the files of ./resource, name -> bytes: one ends in a short chunk, the
\* other is a whole number of chunks
Resource ==
    [f \in {"a.mp3", "b.mp3"} |->
        IF f = "a.mp3"
        THEN [i \in 1..(ChunkSize + 1) |-> i]
        ELSE [i \in 1..ChunkSize |-> 100 + i]]

\* os.Stat(filePath) does not report IsNotExist
Exists(f) == f \in DOMAIN Resource

\* the filenames a start message may carry
Filenames == {"", "a.mp3", "b.mp3", "missing.mp3"}

(* ------------------------------ processes ----------------------------- *)

Workers == 1..MaxWorkers

\* the goroutine running handleWebSocket's receive loop
RL == 0

(* ------------------------------ messages ------------------------------ *)

\* Message after json.Unmarshal; Malformed stands for a payload Unmarshal rejects
Malformed == [action |-> "<malformed>", filename |-> ""]

Message(a, f) == [action |-> a, filename |-> f]

\* what conn.ReadMessage can return without error: (messageType, payload)
Inbound ==
    {[mt |-> "binary", msg |-> Message("", "")]}
    \cup {[mt |-> "text", msg |-> Malformed]}
    \cup {[mt |-> "text", msg |-> Message("start", f)] : f \in Filenames}
    \cup {[mt |-> "text", msg |-> Message("stop", "")]}
    \cup {[mt |-> "text", msg |-> Message("pause", "")]}

\* json.Unmarshal(p, &msg) returns an error
UnmarshalFails(m) == m = Malformed

\* StatusMessage{Type: "status", Data: status} as json.Marshal encodes it
StatusMessage(status) == [type |-> "status", data |-> status]

\* the status texts of the program
StNoFilename == <<"Error: No filename provided">>
StStopped == <<"Streaming stopped">>
StFinished == <<"Streaming finished">>
StReadErr == <<"Error reading audio file">>
StOpenErr == <<"Error opening audio file">>
StNotFound(f) == <<"Error: File ", f, " not found">>
StStreaming(f) == <<"Streaming ", f>>

\* one call of conn.WriteMessage: who called, the frame, and whether it returned nil
TextFrame(p, status, ok) ==
    [mt |-> "text", by |-> p, payload |-> StatusMessage(status), ok |-> ok]

BinaryFrame(p, bytes, ok) ==
    [mt |-> "binary", by |-> p, payload |-> bytes, ok |-> ok]

(* ------------------------------ scenarios ----------------------------- *)

\* what a run may draw on: goroutines to spawn, the files the peer asks for,
\* empty-filename starts to read, file errors to raise, whether the connection
\* may fail, and whether the peer sends messages that are no start or stop or
\* names a file that is not there
Quiet(files) ==
    [workers |-> MaxWorkers, files |-> files, empties |-> 0, faults |-> 0,
     drop |-> FALSE, noise |-> FALSE]

Troubled ==
    [workers |-> MaxSolo, files |-> DOMAIN Resource, empties |-> MaxEmpty,
     faults |-> MaxFaults, drop |-> TRUE, noise |-> TRUE]

Scenarios == {Quiet(DOMAIN Resource), Troubled}

\* the scenarios of the runs checked for progress: the peer asks for one file
\* when it may start several transfers
FairScenarios == {Quiet({"b.mp3"}), Troubled}

(* ------------------------------- state -------------------------------- *)

VARIABLES
    scenario,    \* the scenario of this run (never changes)
    streaming,   \* client.streaming
    stopCh,      \* client.stopCh: the channel installed now
    closed,      \* the channels that have been closed
    panicked,    \* close of a closed channel was executed
    mu,          \* client.mu: the set of goroutines holding it
    connOk,      \* the connection is usable (reads and writes succeed)
    out,         \* the calls of conn.WriteMessage, in order
    rlPc,        \* position of the receive loop
    rlMsg,       \* the message the receive loop is handling
    rlOld,       \* the channel the receive loop closed last
    empties,     \* start messages with an empty filename read so far
    faults,      \* file errors raised so far
    nworkers,    \* streamAudio goroutines spawned so far
    wpc,         \* position of each streamAudio goroutine
    wfile,       \* its filename argument
    woff,        \* its file offset
    wch,         \* the channel its select evaluated
    wbuf,        \* buffer[:n] of its last Read
    wst,         \* the status it is sending
    cancelBy,    \* history: what closed stopCh first while the worker ran ("start", "stop")
    sentAfter,   \* history: chunks a worker wrote after it was cancelled
    lone,        \* history: the worker spawned when the flag was false, Len(out) then
                 \* and whether no worker ran; forgotten when a start or stop is read
    backend      \* one connection of the single-shot handler of src/backend/main.go

sessionVars == <<streaming, stopCh, closed, panicked>>
rlVars == <<rlPc, rlMsg, rlOld, empties>>
workerVars == <<wpc, wfile, woff, wch, wbuf, wst>>
histVars == <<cancelBy, sentAfter, lone>>
vars == <<scenario, streaming, stopCh, closed, panicked, mu, connOk, out,
          rlPc, rlMsg, rlOld, empties, faults, nworkers,
          wpc, wfile, woff, wch, wbuf, wst,
          cancelBy, sentAfter, lone, backend>>

\* a goroutine that was spawned and has not returned
Live(w) == wpc[w] \notin {"idle", "done"}

NoLone == [w |-> 0, outLen |-> 0, quiet |-> FALSE]

\* history: the workers that ran when a stop or a superseding start closed stopCh
cancelled == {w \in Workers : cancelBy[w] # ""}

InitIn(scenarios) ==
    /\ scenario \in scenarios
    /\ streaming = FALSE
    /\ stopCh = 0
    /\ closed = {}
    /\ panicked = FALSE
    /\ mu = {}
    /\ connOk = TRUE
    /\ out = <<>>
    /\ rlPc = "read"
    /\ rlMsg = [mt |-> "none", msg |-> Message("", "")]
    /\ rlOld = 0
    /\ empties = 0
    /\ faults = 0
    /\ nworkers = 0
    /\ wpc = [w \in Workers |-> "idle"]
    /\ wfile = [w \in Workers |-> ""]
    /\ woff = [w \in Workers |-> 0]
    /\ wch = [w \in Workers |-> 0]
    /\ wbuf = [w \in Workers |-> <<>>]
    /\ wst = [w \in Workers |-> <<>>]
    /\ cancelBy = [w \in Workers |-> ""]
    /\ sentAfter = [w \in Workers |-> 0]
    /\ lone = NoLone

\* no connection to the single-shot handler
BackendOff == [pc |-> "off"]

Init == InitIn(Scenarios) /\ backend = BackendOff

(* --------------------------- shared helpers --------------------------- *)

\* mutant: Lock() that does not wait
LockNeverWaits == TRUE

\* client.mu.Lock() returns
LockFree == mu = {}

\* mutant: writes on a dead connection succeed
WriteAlwaysOk == TRUE

\* conn.WriteMessage returns nil
WriteOk == connOk

\* mutant: the closed channel is installed again
FreshChReused == stopCh

\* make(chan struct{}): a channel no one has seen
FreshCh == stopCh + 1

\* close(ch): the channels closed afterwards
CloseCh(ch) == closed \cup {ch}

\* sendStatusMessage, first half: client.mu.Lock() by p
SendLock(p) ==
    /\ LockFree
    /\ mu' = mu \cup {p}

\* mutant: sendStatusMessage without the deferred Unlock
SendWriteKeepsLock(p, status) ==
    /\ out' = Append(out, TextFrame(p, status, WriteOk))
    /\ mu' = mu

\* sendStatusMessage, second half: conn.WriteMessage(TextMessage, data), then Unlock
SendWrite(p, status) ==
    /\ out' = Append(out, TextFrame(p, status, WriteOk))
    /\ mu' = mu \ {p}

\* the file system may raise one more error in this run
MayFault == faults < scenario.faults

(* ------------------- handleWebSocket: the receive loop ----------------- *)

\* the message is not a text frame, does not unmarshal (continue), or its action
\* matches no case of the switch
Ignored(m) ==
    \/ m.mt # "text"
    \/ UnmarshalFails(m.msg)
    \/ m.msg.action \notin {"start", "stop"}

IsStart(m) == ~Ignored(m) /\ m.msg.action = "start"

\* mutant: a switch whose "stop" case is the default case
IsStopOrUnknown(m) == m.mt = "text" /\ ~UnmarshalFails(m.msg) /\ m.msg.action # "start"

IsStop(m) == ~Ignored(m) /\ m.msg.action = "stop"

\* mutant: the empty filename is not checked
EmptyNotChecked(m) == FALSE

\* if msg.Filename == ""
EmptyFilename(m) == m.msg.filename = ""

\* case "start": if client.streaming
StartSupersedes == streaming

\* mutant: stop does not look at client.streaming
StopAlwaysActs == TRUE

\* case "stop": if client.streaming
StopActs == streaming

\* no message in hand
NoMsg == [mt |-> "none", msg |-> Message("", "")]

\* the messages the scenario still allows: a start that spawns a goroutine
\* while it has one left, and so on
Admissible(m) ==
    IF m.mt = "text" /\ m.msg.action = "start"
    THEN IF m.msg.filename = ""
         THEN empties < scenario.empties
         ELSE /\ nworkers < scenario.workers
              /\ m.msg.filename \in scenario.files \/ (~Exists(m.msg.filename) /\ scenario.noise)
    ELSE (m.mt = "text" /\ m.msg.action = "stop") \/ scenario.noise

\* history: a start or stop message arrives
Disturbs(m) ==
    IF m.mt = "text" /\ m.msg.action \in {"start", "stop"} THEN NoLone ELSE lone

\* conn.ReadMessage() returns a message
RLRead ==
    /\ rlPc = "read"
    /\ connOk
    /\ \E m \in Inbound :
        /\ Admissible(m)
        /\ rlMsg' = m
        /\ lone' = Disturbs(m)
        /\ empties' = IF m.msg.filename = "" /\ m.msg.action = "start"
                      THEN empties + 1 ELSE empties
    /\ rlPc' = "dispatch"
    /\ UNCHANGED <<scenario, backend, sessionVars, mu, connOk, out, rlOld, faults, nworkers,
                   workerVars, cancelBy, sentAfter>>

\* go streamAudio(client, f): the goroutine runs up to its first sendStatusMessage
\* (os.Stat decides which)
Spawn(f, idle) ==
    LET w == nworkers + 1 IN
    /\ nworkers' = w
    /\ wpc' = [wpc EXCEPT ![w] = "stLock"]
    /\ wfile' = [wfile EXCEPT ![w] = f]
    /\ wst' = [wst EXCEPT ![w] = IF Exists(f) THEN StStreaming(f) ELSE StNotFound(f)]
    /\ lone' = IF idle
               THEN [w |-> w, outLen |-> Len(out), quiet |-> \A v \in Workers : ~Live(v)]
               ELSE NoLone

\* mutant: a receive loop that answers what it ignores
RLIgnoreReplies ==
    /\ rlPc = "dispatch"
    /\ Ignored(rlMsg)
    /\ rlMsg' = NoMsg
    /\ rlPc' = "read"
    /\ out' = Append(out, TextFrame(RL, <<"Error: invalid message">>, WriteOk))
    /\ UNCHANGED <<scenario, backend, sessionVars, mu, connOk, rlOld, empties, faults,
                   nworkers, workerVars, histVars>>

\* the message is ignored: back to ReadMessage
RLIgnore ==
    /\ rlPc = "dispatch"
    /\ Ignored(rlMsg)
    /\ rlMsg' = NoMsg
    /\ rlPc' = "read"
    /\ UNCHANGED <<scenario, backend, sessionVars, mu, connOk, out, rlOld, empties, faults,
                   nworkers, workerVars, histVars>>

\* conn.ReadMessage() returns an error: break, and the deferred conn.Close() runs
RLReadErr ==
    /\ rlPc = "read"
    /\ scenario.drop
    /\ rlPc' = "closed"
    /\ connOk' = FALSE
    /\ UNCHANGED <<scenario, backend, sessionVars, mu, out, rlMsg, rlOld, empties, faults,
                   nworkers, workerVars, histVars>>

\* case "start", empty filename: on to sendStatusMessage
RLStartEmpty ==
    /\ rlPc = "dispatch"
    /\ IsStart(rlMsg)
    /\ EmptyFilename(rlMsg)
    /\ rlMsg' = NoMsg
    /\ rlPc' = "emptyLock"
    /\ UNCHANGED <<scenario, backend, sessionVars, mu, connOk, out, rlOld, empties, faults,
                   nworkers, workerVars, histVars>>

\* case "start" while client.streaming is false: client.streaming = true and spawn
RLStartIdle ==
    /\ rlPc = "dispatch"
    /\ IsStart(rlMsg)
    /\ ~EmptyFilename(rlMsg)
    /\ ~StartSupersedes
    /\ streaming' = TRUE
    /\ Spawn(rlMsg.msg.filename, TRUE)
    /\ rlMsg' = NoMsg
    /\ rlPc' = "read"
    /\ UNCHANGED <<scenario, backend, stopCh, closed, panicked, mu, connOk, out, rlOld,
                   empties, faults, woff, wch, wbuf, cancelBy, sentAfter>>

\* case "start" while client.streaming is true: on to client.mu.Lock()
RLStartBusy ==
    /\ rlPc = "dispatch"
    /\ IsStart(rlMsg)
    /\ ~EmptyFilename(rlMsg)
    /\ StartSupersedes
    /\ rlPc' = "startLock"
    /\ UNCHANGED <<scenario, backend, sessionVars, mu, connOk, out, rlMsg, rlOld, empties,
                   faults, nworkers, workerVars, histVars>>

\* client.mu.Lock(); close(client.stopCh)
LockAndClose(next, cause) ==
    /\ LockFree
    /\ mu' = mu \cup {RL}
    /\ closed' = CloseCh(stopCh)
    /\ panicked' = (panicked \/ stopCh \in closed)
    /\ rlOld' = stopCh
    /\ cancelBy' = [w \in Workers |->
           IF Live(w) /\ cancelBy[w] = "" THEN cause ELSE cancelBy[w]]
    /\ rlPc' = next
    /\ UNCHANGED <<scenario, backend, streaming, stopCh, connOk, out, rlMsg, empties, faults, nworkers,
                   workerVars, sentAfter, lone>>

RLStartLock ==
    /\ rlPc = "startLock"
    /\ LockAndClose("startCS", "start")

\* mutant: the superseding start without client.mu.Unlock()
RLStartReplaceKeepsLock ==
    /\ rlPc = "startCS"
    /\ stopCh' = FreshCh
    /\ rlPc' = "startSpawn"
    /\ UNCHANGED <<scenario, backend, streaming, closed, panicked, mu, connOk, out, rlMsg, rlOld,
                   empties, faults, nworkers, workerVars, histVars>>

\* client.stopCh = make(chan struct{}); client.mu.Unlock()
RLStartReplace ==
    /\ rlPc = "startCS"
    /\ stopCh' = FreshCh
    /\ mu' = mu \ {RL}
    /\ rlPc' = "startSpawn"
    /\ UNCHANGED <<scenario, backend, streaming, closed, panicked, connOk, out, rlMsg, rlOld, empties,
                   faults, nworkers, workerVars, histVars>>

\* client.streaming = true; go streamAudio(client, msg.Filename)
RLStartSpawn ==
    /\ rlPc = "startSpawn"
    /\ streaming' = TRUE
    /\ Spawn(rlMsg.msg.filename, FALSE)
    /\ rlMsg' = NoMsg
    /\ rlPc' = "read"
    /\ UNCHANGED <<scenario, backend, stopCh, closed, panicked, mu, connOk, out, rlOld, empties, faults,
                   woff, wch, wbuf, cancelBy, sentAfter>>

\* case "stop" while client.streaming is false: nothing
RLStopIdle ==
    /\ rlPc = "dispatch"
    /\ IsStop(rlMsg)
    /\ ~StopActs
    /\ rlMsg' = NoMsg
    /\ rlPc' = "read"
    /\ UNCHANGED <<scenario, backend, sessionVars, mu, connOk, out, rlOld, empties, faults,
                   nworkers, workerVars, histVars>>

\* case "stop" while client.streaming is true: on to client.mu.Lock()
RLStopBusy ==
    /\ rlPc = "dispatch"
    /\ IsStop(rlMsg)
    /\ StopActs
    /\ rlMsg' = NoMsg
    /\ rlPc' = "stopLock"
    /\ UNCHANGED <<scenario, backend, sessionVars, mu, connOk, out, rlOld, empties, faults,
                   nworkers, workerVars, histVars>>

RLStopLock ==
    /\ rlPc = "stopLock"
    /\ LockAndClose("stopCS", "stop")

\* mutant: stop forgets client.streaming = false
StopFlagKept == streaming

\* the value stop leaves in client.streaming
StopFlag == FALSE

\* mutant: stop without client.stopCh = make(chan struct{})
RLStopKeepsChannel ==
    /\ rlPc = "stopCS"
    /\ streaming' = StopFlag
    /\ mu' = mu \ {RL}
    /\ rlPc' = "stopStLock"
    /\ UNCHANGED <<scenario, backend, stopCh, closed, panicked, connOk, out, rlMsg, rlOld, empties,
                   faults, nworkers, workerVars, histVars>>

\* client.stopCh = make(chan struct{}); client.streaming = false; client.mu.Unlock()
RLStopReplace ==
    /\ rlPc = "stopCS"
    /\ stopCh' = FreshCh
    /\ streaming' = StopFlag
    /\ mu' = mu \ {RL}
    /\ rlPc' = "stopStLock"
    /\ UNCHANGED <<scenario, backend, closed, panicked, connOk, out, rlMsg, rlOld, empties, faults,
                   nworkers, workerVars, histVars>>

\* sendStatusMessage(client, ...) of the receive loop: client.mu.Lock()
RLStatusLock ==
    /\ rlPc \in {"emptyLock", "stopStLock"}
    /\ SendLock(RL)
    /\ rlPc' = IF rlPc = "emptyLock" THEN "emptyWrite" ELSE "stopStWrite"
    /\ UNCHANGED <<scenario, backend, sessionVars, connOk, out, rlMsg, rlOld, empties, faults, nworkers,
                   workerVars, histVars>>

\* ... conn.WriteMessage, Unlock, and back to ReadMessage
RLStatusWrite ==
    /\ rlPc \in {"emptyWrite", "stopStWrite"}
    /\ SendWrite(RL, IF rlPc = "emptyWrite" THEN StNoFilename ELSE StStopped)
    /\ rlPc' = "read"
    /\ UNCHANGED <<scenario, backend, sessionVars, connOk, rlMsg, rlOld, empties, faults, nworkers,
                   workerVars, histVars>>

(* ------------------------ streamAudio goroutines ----------------------- *)

\* the goroutine returns: its locals are gone
Return(w) ==
    /\ wpc' = [wpc EXCEPT ![w] = "done"]
    /\ woff' = [woff EXCEPT ![w] = 0]
    /\ wch' = [wch EXCEPT ![w] = 0]
    /\ wbuf' = [wbuf EXCEPT ![w] = <<>>]
    /\ wst' = [wst EXCEPT ![w] = <<>>]

\* sendStatusMessage(client, ...) of a worker: client.mu.Lock()
WStatusLock(w) ==
    /\ wpc[w] = "stLock"
    /\ SendLock(w)
    /\ wpc' = [wpc EXCEPT ![w] = "stWrite"]
    /\ UNCHANGED <<scenario, backend, sessionVars, connOk, out, rlVars, faults, nworkers,
                   wfile, woff, wch, wbuf, wst, histVars>>

\* "Streaming <name>" is written, Unlock, and os.Open(filePath) succeeds
WStreamingOpen(w) ==
    /\ wpc[w] = "stWrite"
    /\ wst[w] = StStreaming(wfile[w])
    /\ SendWrite(w, wst[w])
    /\ wst' = [wst EXCEPT ![w] = <<>>]
    /\ wpc' = [wpc EXCEPT ![w] = "select"]
    /\ UNCHANGED <<scenario, backend, sessionVars, connOk, rlVars, faults, nworkers,
                   wfile, woff, wch, wbuf, histVars>>

\* "Streaming <name>" is written, Unlock, and os.Open(filePath) fails: on to
\* sendStatusMessage("Error opening audio file")
WStreamingOpenErr(w) ==
    /\ wpc[w] = "stWrite"
    /\ wst[w] = StStreaming(wfile[w])
    /\ MayFault
    /\ faults' = faults + 1
    /\ SendWrite(w, wst[w])
    /\ wst' = [wst EXCEPT ![w] = StOpenErr]
    /\ wpc' = [wpc EXCEPT ![w] = "stLock"]
    /\ UNCHANGED <<scenario, backend, sessionVars, connOk, rlVars, nworkers,
                   wfile, woff, wch, wbuf, histVars>>

\* a status after which streamAudio returns at once is written, Unlock, return
WStatusReturn(w) ==
    /\ wpc[w] = "stWrite"
    /\ wst[w] \in {StNotFound(wfile[w]), StOpenErr}
    /\ SendWrite(w, wst[w])
    /\ Return(w)
    /\ UNCHANGED <<scenario, backend, sessionVars, connOk, rlVars, faults, nworkers, wfile, histVars>>

\* "Streaming finished" or "Error reading audio file" is written, Unlock; on to
\* client.streaming = false
WStatusLast(w) ==
    /\ wpc[w] = "stWrite"
    /\ wst[w] \in {StFinished, StReadErr}
    /\ SendWrite(w, wst[w])
    /\ wst' = [wst EXCEPT ![w] = <<>>]
    /\ wpc' = [wpc EXCEPT ![w] = "setFalse"]
    /\ UNCHANGED <<scenario, backend, sessionVars, connOk, rlVars, faults, nworkers,
                   wfile, woff, wch, wbuf, histVars>>

\* the channel that "case <-client.stopCh" names when the select is entered
SelectCh(w) == stopCh

\* select: the channel operand is evaluated
WSelect(w) ==
    /\ wpc[w] = "select"
    /\ wch' = [wch EXCEPT ![w] = SelectCh(w)]
    /\ wpc' = [wpc EXCEPT ![w] = "poll"]
    /\ UNCHANGED <<scenario, backend, sessionVars, mu, connOk, out, rlVars, faults, nworkers,
                   wfile, woff, wbuf, wst, histVars>>

\* mutant: a cancelled worker that clears client.streaming
WCancelledClearsFlag(w) ==
    /\ wpc[w] = "poll"
    /\ wch[w] \in closed
    /\ streaming' = FALSE
    /\ Return(w)
    /\ UNCHANGED <<scenario, backend, stopCh, closed, panicked, mu, connOk, out, rlVars, faults,
                   nworkers, wfile, histVars>>

\* case <-client.stopCh: the channel is closed, return
WCancelled(w) ==
    /\ wpc[w] = "poll"
    /\ wch[w] \in closed
    /\ Return(w)
    /\ UNCHANGED <<scenario, backend, sessionVars, mu, connOk, out, rlVars, faults, nworkers,
                   wfile, histVars>>

Min(a, b) == IF a < b THEN a ELSE b

\* mutant: a Read that only returns full buffers (the short last chunk is lost)
ReadFullOnly(f, off) ==
    IF off + ChunkSize <= Len(Resource[f])
    THEN SubSeq(Resource[f], off + 1, off + ChunkSize)
    ELSE <<>>

\* mutant: a Read that returns single bytes once a second goroutine was spawned
ReadShortLater(f, off) ==
    SubSeq(Resource[f], off + 1,
           Min(off + (IF nworkers > 1 THEN 1 ELSE ChunkSize), Len(Resource[f])))

\* file.Read(buffer) at offset off: the bytes read (none: io.EOF)
ReadChunk(f, off) ==
    SubSeq(Resource[f], off + 1, Min(off + ChunkSize, Len(Resource[f])))

\* default: file.Read(buffer) returns bytes: on to client.mu.Lock()
WRead(w) ==
    /\ wpc[w] = "poll"
    /\ wch[w] \notin closed
    /\ ReadChunk(wfile[w], woff[w]) # <<>>
    /\ wbuf' = [wbuf EXCEPT ![w] = ReadChunk(wfile[w], woff[w])]
    /\ woff' = [woff EXCEPT ![w] = woff[w] + Len(wbuf'[w])]
    /\ wpc' = [wpc EXCEPT ![w] = "binLock"]
    /\ UNCHANGED <<scenario, backend, sessionVars, mu, connOk, out, rlVars, faults, nworkers,
                   wfile, wch, wst, histVars>>

\* default: file.Read(buffer) returns io.EOF: on to sendStatusMessage
WReadEOF(w) ==
    /\ wpc[w] = "poll"
    /\ wch[w] \notin closed
    /\ ReadChunk(wfile[w], woff[w]) = <<>>
    /\ wst' = [wst EXCEPT ![w] = StFinished]
    /\ wpc' = [wpc EXCEPT ![w] = "stLock"]
    /\ UNCHANGED <<scenario, backend, sessionVars, mu, connOk, out, rlVars, faults, nworkers,
                   wfile, woff, wch, wbuf, histVars>>

\* default: file.Read(buffer) returns another error: on to sendStatusMessage
WReadErr(w) ==
    /\ wpc[w] = "poll"
    /\ wch[w] \notin closed
    /\ MayFault
    /\ faults' = faults + 1
    /\ wst' = [wst EXCEPT ![w] = StReadErr]
    /\ wpc' = [wpc EXCEPT ![w] = "stLock"]
    /\ UNCHANGED <<scenario, backend, sessionVars, mu, connOk, out, rlVars, nworkers,
                   wfile, woff, wch, wbuf, histVars>>

\* client.mu.Lock() before the chunk is written
WBinLock(w) ==
    /\ wpc[w] = "binLock"
    /\ LockFree
    /\ mu' = mu \cup {w}
    /\ wpc' = [wpc EXCEPT ![w] = "binWrite"]
    /\ UNCHANGED <<scenario, backend, sessionVars, connOk, out, rlVars, faults, nworkers,
                   wfile, woff, wch, wbuf, wst, histVars>>

\* mutant: the chunk write without client.mu.Unlock()
WBinWriteKeepsLock(w) ==
    /\ wpc[w] = "binWrite"
    /\ out' = Append(out, BinaryFrame(w, wbuf[w], WriteOk))
    /\ wbuf' = [wbuf EXCEPT ![w] = <<>>]
    /\ wpc' = [wpc EXCEPT ![w] = IF WriteOk THEN "select" ELSE "setFalse"]
    /\ sentAfter' = IF w \in cancelled
                    THEN [sentAfter EXCEPT ![w] = sentAfter[w] + 1]
                    ELSE sentAfter
    /\ UNCHANGED <<scenario, backend, sessionVars, mu, connOk, rlVars, faults, nworkers,
                   wfile, woff, wch, wst, cancelBy, lone>>

\* conn.WriteMessage(BinaryMessage, buffer[:n]); Unlock; on error leave the loop,
\* else sleep and go round
WBinWrite(w) ==
    /\ wpc[w] = "binWrite"
    /\ out' = Append(out, BinaryFrame(w, wbuf[w], WriteOk))
    /\ mu' = mu \ {w}
    /\ wbuf' = [wbuf EXCEPT ![w] = <<>>]
    /\ wpc' = [wpc EXCEPT ![w] = IF WriteOk THEN "select" ELSE "setFalse"]
    /\ sentAfter' = IF w \in cancelled
                    THEN [sentAfter EXCEPT ![w] = sentAfter[w] + 1]
                    ELSE sentAfter
    /\ UNCHANGED <<scenario, backend, sessionVars, connOk, rlVars, faults, nworkers,
                   wfile, woff, wch, wst, cancelBy, lone>>

\* mutant: the exit that forgets client.streaming = false
WExitKeepsFlag(w) ==
    /\ wpc[w] = "setFalse"
    /\ Return(w)
    /\ UNCHANGED <<scenario, backend, sessionVars, mu, connOk, out, rlVars, faults,
                   nworkers, wfile, histVars>>

\* client.streaming = false; return
WSetFalse(w) ==
    /\ wpc[w] = "setFalse"
    /\ streaming' = FALSE
    /\ Return(w)
    /\ UNCHANGED <<scenario, backend, stopCh, closed, panicked, mu, connOk, out, rlVars, faults,
                   nworkers, wfile, histVars>>

(* ----------------------------- environment ---------------------------- *)

\* the peer or the network drops the connection
ConnFail ==
    /\ scenario.drop
    /\ connOk
    /\ connOk' = FALSE
    /\ UNCHANGED <<scenario, backend, sessionVars, mu, out, rlVars, faults, nworkers, workerVars,
                   histVars>>

(* ---------------------------- specification --------------------------- *)

ReceiveLoop ==
    \/ RLRead
    \/ RLIgnore
    \/ RLReadErr
    \/ RLStartEmpty
    \/ RLStartIdle
    \/ RLStartBusy
    \/ RLStartLock
    \/ RLStartReplace
    \/ RLStartSpawn
    \/ RLStopIdle
    \/ RLStopBusy
    \/ RLStopLock
    \/ RLStopReplace
    \/ RLStatusLock
    \/ RLStatusWrite

Worker(w) ==
    \/ WStatusLock(w)
    \/ WStreamingOpen(w)
    \/ WStreamingOpenErr(w)
    \/ WStatusReturn(w)
    \/ WStatusLast(w)
    \/ WSelect(w)
    \/ WCancelled(w)
    \/ WRead(w)
    \/ WReadEOF(w)
    \/ WReadErr(w)
    \/ WBinLock(w)
    \/ WBinWrite(w)
    \/ WSetFalse(w)

Next ==
    \/ ReceiveLoop
    \/ \E w \in Workers : Worker(w)
    \/ ConnFail

Spec == Init /\ [][Next]_vars

\* what the receive loop does once ReadMessage has returned a message
RLHandles ==
    \/ RLIgnore
    \/ RLStartEmpty
    \/ RLStartIdle
    \/ RLStartBusy
    \/ RLStartLock
    \/ RLStartReplace
    \/ RLStartSpawn
    \/ RLStopIdle
    \/ RLStopBusy
    \/ RLStopLock
    \/ RLStopReplace
    \/ RLStatusLock
    \/ RLStatusWrite

\* the Go scheduler runs every runnable goroutine, and sync.Mutex hands the lock
\* to a goroutine that has waited (starvation mode); the peer and the network are
\* free: no message need arrive and the connection need not fail
Fairness ==
    /\ SF_vars(RLHandles)
    /\ \A w \in Workers : SF_vars(Worker(w))

FairSpec == InitIn(FairScenarios) /\ backend = BackendOff /\ [][Next]_vars /\ Fairness

(* --------- src/backend/main.go: the single-shot handler streamAudio ---- *)

\* the files of ./static/audio, name -> bytes: empty, one short chunk, whole
\* chunks, whole chunks and a short one
StaticAudio ==
    [f \in {"s0.mp3", "s1.mp3", "s4.mp3", "s5.mp3"} |->
        CASE f = "s0.mp3" -> <<>>
          [] f = "s1.mp3" -> <<11>>
          [] f = "s4.mp3" -> [i \in 1..(2 * BackendChunkSize) |-> 40 + i]
          [] f = "s5.mp3" -> [i \in 1..(2 * BackendChunkSize + 1) |-> 50 + i]]

\* os.Stat(filePath) returns no error
StatOk(f) == f \in DOMAIN StaticAudio

\* what the peer may send: frames of either type carrying a name
PeerFrames ==
    [mt : {"text", "binary"}, payload : DOMAIN StaticAudio \cup {"nope.mp3"}]

\* what the peer sends on one connection, in order
PeerSends ==
    {<<>>} \cup {<<m>> : m \in PeerFrames}
           \cup {<<m, [mt |-> "text", payload |-> "s1.mp3"]>> : m \in PeerFrames}

BackendErrNotFound == <<"Error: File not found">>
BackendErrOpen == <<"Error opening file">>
BackendErrRead == <<"Error reading file">>

\* one call of conn.WriteMessage of the handler and whether it returned nil
BackendFrame(mt, payload, ok) == [mt |-> mt, payload |-> payload, ok |-> ok]

\* the connection is upgraded; the peer's frames are on their way
BackendStarts ==
    {[pc |-> "read", sent |-> ms, inbox |-> ms, reads |-> 0, fileName |-> "",
      off |-> 0, buf |-> <<>>, out |-> <<>>, connOk |-> TRUE, closed |-> FALSE,
      faults |-> 0] : ms \in {ms \in PeerSends : Len(ms) <= MaxSent}}

BackendInit == InitIn({Troubled}) /\ backend \in BackendStarts

\* the session of src/main.go, which the single-shot handler does not touch
mainVars == <<scenario, streaming, stopCh, closed, panicked, mu, connOk, out,
              rlPc, rlMsg, rlOld, empties, faults, nworkers,
              wpc, wfile, woff, wch, wbuf, wst, cancelBy, sentAfter, lone>>

\* return: the deferred file.Close() and conn.Close() run
BackendReturn(b) == [b EXCEPT !.pc = "returned", !.closed = TRUE, !.connOk = FALSE,
                               !.buf = <<>>]

\* conn.WriteMessage(mt, payload) by the handler
BackendWrite(b, mt, payload) ==
    [b EXCEPT !.out = Append(b.out, BackendFrame(mt, payload, b.connOk))]

BackendMayFault == backend.faults < BackendFaults

\* conn.ReadMessage() returns the peer's next frame; its type is dropped and
\* its payload is the file name
BackendReadMessage ==
    /\ UNCHANGED mainVars
    /\ backend.pc = "read"
    /\ backend.connOk
    /\ backend.inbox # <<>>
    /\ backend' = [backend EXCEPT !.pc = "stat",
                                  !.fileName = Head(backend.inbox).payload,
                                  !.inbox = Tail(backend.inbox),
                                  !.reads = backend.reads + 1]

\* conn.ReadMessage() returns an error: return
BackendReadMessageErr ==
    /\ UNCHANGED mainVars
    /\ backend.pc = "read"
    /\ ~backend.connOk
    /\ backend' = BackendReturn(backend)

\* os.Stat fails: "Error: File not found", return
BackendNotFound ==
    /\ UNCHANGED mainVars
    /\ backend.pc = "stat"
    /\ ~StatOk(backend.fileName)
    /\ backend' = BackendReturn(BackendWrite(backend, "text", BackendErrNotFound))

\* os.Stat and os.Open succeed: on to the loop
BackendOpen ==
    /\ UNCHANGED mainVars
    /\ backend.pc = "stat"
    /\ StatOk(backend.fileName)
    /\ backend' = [backend EXCEPT !.pc = "loop"]

\* os.Open fails: "Error opening file", return
BackendOpenErr ==
    /\ UNCHANGED mainVars
    /\ backend.pc = "stat"
    /\ StatOk(backend.fileName)
    /\ BackendMayFault
    /\ backend' = BackendReturn(BackendWrite(
           [backend EXCEPT !.faults = backend.faults + 1], "text", BackendErrOpen))

\* file.Read(buffer) at offset off: the bytes read (none: io.EOF)
BackendReadChunk(f, off) ==
    SubSeq(StaticAudio[f], off + 1, Min(off + BackendChunkSize, Len(StaticAudio[f])))

\* file.Read returns bytes: on to conn.WriteMessage
BackendRead ==
    /\ UNCHANGED mainVars
    /\ backend.pc = "loop"
    /\ BackendReadChunk(backend.fileName, backend.off) # <<>>
    /\ backend' = [backend EXCEPT
           !.buf = BackendReadChunk(backend.fileName, backend.off),
           !.off = backend.off + Len(BackendReadChunk(backend.fileName, backend.off)),
           !.pc = "write"]

\* file.Read returns io.EOF: break, return
BackendReadEOF ==
    /\ UNCHANGED mainVars
    /\ backend.pc = "loop"
    /\ BackendReadChunk(backend.fileName, backend.off) = <<>>
    /\ backend' = BackendReturn(backend)

\* file.Read returns another error: "Error reading file", return
BackendReadErr ==
    /\ UNCHANGED mainVars
    /\ backend.pc = "loop"
    /\ BackendMayFault
    /\ backend' = BackendReturn(BackendWrite(
           [backend EXCEPT !.faults = backend.faults + 1], "text", BackendErrRead))

\* mutant: a handler that goes on after a write error
BackendSendChunkGoesOn ==
    /\ UNCHANGED mainVars
    /\ backend.pc = "write"
    /\ backend' = [BackendWrite(backend, "binary", backend.buf) EXCEPT
                       !.pc = "loop", !.buf = <<>>]

\* conn.WriteMessage(BinaryMessage, buffer[:n]); on error return, else sleep
\* and go round
BackendSendChunk ==
    /\ UNCHANGED mainVars
    /\ backend.pc = "write"
    /\ backend' =
        IF backend.connOk
        THEN [BackendWrite(backend, "binary", backend.buf) EXCEPT
                  !.pc = "loop", !.buf = <<>>]
        ELSE BackendReturn(BackendWrite(backend, "binary", backend.buf))

\* the peer or the network drops the connection
BackendConnFail ==
    /\ UNCHANGED mainVars
    /\ backend.pc \notin {"off", "returned"}
    /\ backend.connOk
    /\ backend' = [backend EXCEPT !.connOk = FALSE]

BackendHandler ==
    \/ BackendReadMessage
    \/ BackendReadMessageErr
    \/ BackendNotFound
    \/ BackendOpen
    \/ BackendOpenErr
    \/ BackendRead
    \/ BackendReadEOF
    \/ BackendReadErr
    \/ BackendSendChunk

BackendNext ==
    \/ BackendHandler
    \/ BackendConnFail

\* the handler's goroutine is scheduled; the peer is free
BackendSpec == BackendInit /\ [][BackendNext]_vars /\ WF_vars(BackendHandler)

(* ------------------------------ properties ---------------------------- *)

IsStatus(fr, status) == fr.mt = "text" /\ fr.payload = StatusMessage(status)

\* the positions of out holding a frame by p
FramesBy(p) == {i \in 1..Len(out) : out[i].by = p}

\* the positions of out holding a binary frame by w
ChunksBy(w) == {i \in FramesBy(w) : out[i].mt = "binary"}

\* worker w has had the status written
Emitted(w, status) == \E i \in FramesBy(w) : IsStatus(out[i], status)

\* the receive loop leaves position pc in this step
RLLeaves(pc) == rlPc = pc /\ rlPc' # pc

\* worker w returns in this step
Exits(w) == Live(w) /\ wpc'[w] = "done"

RECURSIVE Flatten(_)
Flatten(ss) == IF ss = <<>> THEN <<>> ELSE Head(ss) \o Flatten(Tail(ss))

Ceil(n, c) == (n + c - 1) \div c

\* C1: at most one worker is sending binary frames at any time.  A worker is
\* sending when it has a chunk in hand at the locked write (binLock, binWrite);
\* the one chunk of the iteration in which it was cancelled is not counted.
Sending(w) ==
    /\ wpc[w] \in {"binLock", "binWrite"}
    /\ cancelBy[w] = "" \/ sentAfter[w] >= 1

C1_OneActiveSender ==
    \A v, w \in Workers : Sending(v) /\ Sending(w) => v = w

\* C2: a worker superseded by a later start stops and never emits "Streaming
\* finished" (checked for a worker that went on to write a chunk after the
\* supersede, so that it has passed the select at least once since).
C2_SupersededNeverFinishes ==
    \A w \in Workers :
        cancelBy[w] = "start" /\ sentAfter[w] >= 1 => ~Emitted(w, StFinished)

\* C3: once the superseding worker has emitted "Streaming <B>", the binary
\* frames on the connection are B's: of a superseded worker at most the one
\* chunk it had in hand follows.
ChunksAfterStreaming(v, w) ==
    {j \in ChunksBy(v) :
        \E i \in FramesBy(w) : i < j /\ IsStatus(out[i], StStreaming(wfile[w]))}

C3_DeliveredIsNewContent ==
    \A v, w \in Workers :
        v < w /\ cancelBy[v] = "start" => Cardinality(ChunksAfterStreaming(v, w)) <= 1

\* C4: after a stop or a superseding start is handled, the worker that ran then
\* writes at most one more chunk.
C4_AtMostOneChunkAfterCancel ==
    \A w \in Workers : sentAfter[w] <= 1

\* C5: a start naming a file that does not exist yields the status "Error: File
\* <name> not found" and nothing else from its worker, and once the worker has
\* returned (no later start) client.streaming is false.
C5_MissingFileResetsFlag ==
    \A w \in Workers :
        (wpc[w] = "done" /\ ~Exists(wfile[w]) /\ nworkers = w /\ rlPc \in {"read", "closed"})
            => /\ Cardinality(FramesBy(w)) = 1
               /\ Emitted(w, StNotFound(wfile[w]))
               /\ ~streaming

\* C6: the frames worker w has written are "Streaming <name>", ceil(N/C) chunks
\* in file order that add up to the file, "Streaming finished"; they are all
\* there is on the connection since the start when no other worker ran then;
\* and client.streaming is false
EndToEnd(w) ==
    LET since == SubSeq(out, lone.outLen + 1, Len(out))
        seg == SelectSeq(since, LAMBDA fr : fr.by = w)
        n == Len(seg)
        file == Resource[wfile[w]]
    IN  /\ n = Ceil(Len(file), ChunkSize) + 2
        /\ lone.quiet => seg = since
        /\ IsStatus(seg[1], StStreaming(wfile[w]))
        /\ IsStatus(seg[n], StFinished)
        /\ \A i \in 2..(n - 1) :
            seg[i].mt = "binary" /\ Len(seg[i].payload) \in 1..ChunkSize
        /\ Flatten([i \in 1..(n - 2) |-> seg[i + 1].payload]) = file
        /\ ~streaming

\* w was started while client.streaming was false, no start or stop was read
\* since, its file exists and no write on the connection has failed
StartedAlone(w) ==
    /\ lone.w = w
    /\ Exists(wfile[w])
    /\ \A i \in (lone.outLen + 1)..Len(out) : out[i].ok

NoFileError(w) == ~Emitted(w, StReadErr) /\ ~Emitted(w, StOpenErr)

NumStopped == Cardinality({i \in 1..Len(out) : IsStatus(out[i], StStopped)})

C7_StopWhileStreaming ==
    /\ [](rlPc \in {"stopStLock", "stopStWrite"} => ~streaming /\ stopCh \notin closed)
    /\ [][RLLeaves("stopLock") =>
            rlPc' = "stopCS" /\ stopCh' = stopCh /\ closed' = closed \cup {stopCh}]_vars
    /\ [][RLLeaves("stopCS") =>
            /\ rlPc' = "stopStLock"
            /\ stopCh \in closed /\ stopCh' \notin closed'
            /\ ~streaming'
            /\ out' = out]_vars
    /\ [][RLLeaves("stopStLock") => rlPc' = "stopStWrite" /\ out' = out]_vars
    /\ [][RLLeaves("stopStWrite") =>
            /\ rlPc' = "read"
            /\ out' = Append(out, TextFrame(RL, StStopped, connOk))
            /\ ~streaming' /\ stopCh' \notin closed']_vars
    /\ [][NumStopped' # NumStopped => RLLeaves("stopStWrite")]_vars

C7_Witness ==
    /\ rlPc = "read"
    /\ out # <<>> /\ IsStatus(out[Len(out)], StStopped)
    /\ ~streaming
    /\ rlOld \in closed /\ stopCh \notin closed
    /\ NumStopped = 1

\* C8: a stop handled while client.streaming is false writes no frame and
\* changes nothing of the session.
StopOnIdle == rlPc = "dispatch" /\ rlMsg.mt = "text" /\ rlMsg.msg.action = "stop" /\ ~streaming

C8_StopOnIdle ==
    [][(StopOnIdle /\ rlPc' # rlPc) =>
            /\ rlPc' = "read"
            /\ UNCHANGED <<streaming, stopCh, closed, mu, out, nworkers, wpc, cancelBy>>]_vars

C8_Witness ==
    /\ StopOnIdle
    /\ out # <<>>
    /\ \E w \in Workers : wpc[w] = "done" /\ Emitted(w, StFinished)

\* C9: a start with an empty filename writes "Error: No filename provided" and
\* nothing else: no goroutine is spawned, the channel is neither closed nor
\* replaced, the receive loop does not write client.streaming, and a worker
\* that runs is not cancelled.
EmptyStart ==
    rlPc = "dispatch" /\ rlMsg.mt = "text" /\ rlMsg.msg.action = "start"
        /\ rlMsg.msg.filename = ""

C9_EmptyFilename ==
    /\ [][(EmptyStart /\ rlPc' # rlPc) =>
            /\ rlPc' = "emptyLock"
            /\ UNCHANGED <<streaming, stopCh, closed, out, nworkers, wpc, cancelBy>>]_vars
    /\ [][RLLeaves("emptyLock") =>
            /\ rlPc' = "emptyWrite"
            /\ UNCHANGED <<streaming, stopCh, closed, out, nworkers, wpc, cancelBy>>]_vars
    /\ [][RLLeaves("emptyWrite") =>
            /\ rlPc' = "read"
            /\ out' = Append(out, TextFrame(RL, StNoFilename, connOk))
            /\ UNCHANGED <<streaming, stopCh, closed, nworkers, wpc, cancelBy>>]_vars

C9_Witness ==
    /\ rlPc = "read"
    /\ out # <<>> /\ IsStatus(out[Len(out)], StNoFilename)
    /\ streaming
    /\ \E w \in Workers : wpc[w] = "binLock" /\ cancelBy[w] = ""

\* C10: at most one call of conn.WriteMessage is in progress at any time, and
\* whoever is in one holds client.mu.
InWrite ==
    {p \in {RL} : rlPc \in {"emptyWrite", "stopStWrite"}}
        \cup {w \in Workers : wpc[w] \in {"stWrite", "binWrite"}}

C10_OneWriteInFlight ==
    /\ Cardinality(InWrite) <= 1
    /\ InWrite \subseteq mu
    /\ Cardinality(mu) <= 1

C10_Witness ==
    /\ rlPc = "stopStWrite"
    /\ \E w \in Workers : wpc[w] = "binLock"

\* C11: a text frame that json.Unmarshal rejects is dropped: the step that
\* handles it returns to ReadMessage (which is there to be taken) and writes no
\* frame, leaves client.streaming, client.stopCh and the closed channels as
\* they are, takes no lock, spawns no goroutine and cancels none.
MalformedInHand == rlPc = "dispatch" /\ rlMsg.mt = "text" /\ rlMsg.msg = Malformed

C11_MalformedIgnored ==
    /\ [](MalformedInHand => ENABLED RLIgnore)
    /\ [][(MalformedInHand /\ rlPc' # rlPc) =>
            /\ rlPc' = "read"
            /\ UNCHANGED <<streaming, stopCh, closed, mu, out, nworkers, wpc, cancelBy>>]_vars

C11_Witness ==
    /\ MalformedInHand
    /\ streaming
    /\ \E w \in Workers : wpc[w] = "binLock" /\ cancelBy[w] = "" /\ ChunksBy(w) # {}

\* C12: two completed transfers of the same file put the same chunks on the
\* connection, frame by frame (in particular a replay after the first transfer
\* has completed).
ChunkSeq(w) ==
    LET frames == SelectSeq(out, LAMBDA fr : fr.mt = "binary" /\ fr.by = w)
    IN  [i \in 1..Len(frames) |-> frames[i].payload]

Completed(w) == wpc[w] = "done" /\ Emitted(w, StFinished)

RLWaitsForLock ==
    rlPc \in {"startLock", "stopLock", "emptyLock", "stopStLock"} /\ mu # {}

C13_NoMutualWait ==
    RLWaitsForLock => \E w \in Workers : w \in mu /\ wpc[w] \in {"stWrite", "binWrite"}

C13_StartNeverDeadlocks ==
    /\ []C13_NoMutualWait
    /\ \A n \in 0..(MaxWorkers - 1) :
        (rlPc = "startLock" /\ nworkers = n) ~> (rlPc = "read" /\ nworkers = n + 1)

C13_Witness ==
    /\ rlPc = "startLock"
    /\ \E w \in Workers : wpc[w] = "binWrite" /\ w \in mu

\* C14: how streamAudio leaves its loop other than by cancellation.  At io.EOF
\* the next frame it writes is "Streaming finished", at a read error "Error
\* reading audio file"; after that status, or after a chunk write that returned
\* an error (no second attempt), it sets client.streaming = false and returns,
\* and it writes no frame from then on.
LastFrameBy(w) == out[CHOOSE i \in FramesBy(w) : \A j \in FramesBy(w) : j <= i]

C14_WorkerEnds ==
    /\ [](\A w \in Workers : wpc[w] = "setFalse" =>
            \/ IsStatus(LastFrameBy(w), StFinished)
            \/ IsStatus(LastFrameBy(w), StReadErr)
            \/ LastFrameBy(w).mt = "binary" /\ ~LastFrameBy(w).ok)
    /\ [][\A w \in Workers :
            (wpc[w] = "poll" /\ wpc'[w] = "stLock") =>
                /\ out' = out
                /\ wst'[w] \in {StFinished, StReadErr}
                /\ wst'[w] = StFinished => ReadChunk(wfile[w], woff[w]) = <<>>]_vars
    /\ [][\A w \in Workers :
            (wpc[w] = "stLock" /\ wst[w] \in {StFinished, StReadErr}) =>
                FramesBy(w)' = FramesBy(w) /\ wst'[w] = wst[w]]_vars
    /\ [][\A w \in Workers :
            (wpc[w] = "stWrite" /\ wst[w] \in {StFinished, StReadErr} /\ wpc'[w] # wpc[w]) =>
                /\ wpc'[w] = "setFalse"
                /\ out' = Append(out, TextFrame(w, wst[w], connOk))]_vars
    /\ [][\A w \in Workers :
            (wpc[w] = "binWrite" /\ ~connOk /\ wpc'[w] # wpc[w]) =>
                /\ wpc'[w] = "setFalse"
                /\ out' = Append(out, BinaryFrame(w, wbuf[w], FALSE))]_vars
    /\ [][\A w \in Workers :
            (wpc[w] = "setFalse" /\ wpc'[w] # wpc[w]) =>
                wpc'[w] = "done" /\ ~streaming' /\ out' = out]_vars
    /\ [][\A w \in Workers :
            wpc[w] \in {"setFalse", "done"} => FramesBy(w)' = FramesBy(w)]_vars

C14_Witness ==
    \E w \in Workers :
        /\ wpc[w] = "done"
        /\ ChunksBy(w) # {}
        /\ IsStatus(LastFrameBy(w), StReadErr)
        /\ ~streaming

\* C15: a worker that returns because the channel of its select is closed
\* writes neither client.streaming nor a frame.
C15_CancelledExitSilent ==
    [][\A w \in Workers :
        (wpc[w] = "poll" /\ wpc'[w] = "done") =>
            wch[w] \in closed /\ streaming' = streaming /\ out' = out]_vars

C15_Witness ==
    /\ wpc[1] = "done" /\ cancelBy[1] = "start"
    /\ ChunksBy(1) # {} /\ ~Emitted(1, StFinished)
    /\ Live(2)
    /\ streaming

\* C16: once the receive loop has left on a read error (conn.Close() runs), every
\* streamAudio goroutine still running returns: a chunk write on the dead
\* connection fails, and the step after a failed chunk write is the exit.
C16_WorkersExitAfterTeardown ==
    /\ (rlPc = "closed") ~> (\A w \in Workers : ~Live(w))
    /\ [][\A w \in Workers :
            (wpc[w] = "binWrite" /\ ~connOk /\ wpc'[w] # "binWrite")
                => wpc'[w] = "setFalse" /\ ~out'[Len(out')].ok]_vars

C16_Witness ==
    /\ rlPc = "closed"
    /\ \E w \in Workers :
        /\ wpc[w] = "done"
        /\ \E i \in ChunksBy(w) : ~out[i].ok /\ i = Len(out)
        /\ ~Emitted(w, StFinished)

\* C17: client.mu is held only inside a frame write or inside the receive
\* loop's close-and-replace, and the holder's next step releases it: no worker
\* holds it at the select, at the Read or in the Sleep.
C17_MutexOnlyForOneWrite ==
    /\ [](\A w \in Workers : w \in mu => wpc[w] \in {"stWrite", "binWrite"})
    /\ [](RL \in mu => rlPc \in {"startCS", "stopCS", "emptyWrite", "stopStWrite"})
    /\ [][\A w \in Workers :
            (w \in mu /\ wpc'[w] # wpc[w]) => w \notin mu' /\ Len(out') = Len(out) + 1]_vars
    /\ [][(RL \in mu /\ rlPc' # rlPc) => RL \notin mu']_vars

C17_Witness ==
    /\ mu = {RL}
    /\ \E w \in Workers : wpc[w] = "poll" /\ ChunksBy(w) # {}

\* C18: once "Streaming stopped" has been written for the transfer of worker w
\* and no later start was accepted, at most one chunk of w and no "Streaming
\* finished" of w follows that frame.  (With w the goroutine spawned last and
\* cancelled by a stop, the frame is the last "Streaming stopped" of out.)
StoppedAt == {i \in 1..Len(out) : IsStatus(out[i], StStopped)}

AfterStopped(w) == {j \in FramesBy(w) : \A i \in StoppedAt : i < j}

C18_NothingAfterStopped ==
    \A w \in Workers :
        (/\ nworkers = w
         /\ cancelBy[w] = "stop"
         /\ rlPc \notin {"stopCS", "stopStLock", "stopStWrite"})
            => /\ Cardinality(AfterStopped(w) \cap ChunksBy(w)) <= 1
               /\ \A j \in AfterStopped(w) : ~IsStatus(out[j], StFinished)

\* C19: while the goroutine spawned last runs and neither a stop nor a
\* superseding start has closed the channel since it was spawned,
\* client.streaming is true.
C19_FlagTrueWhileNewestRuns ==
    \A w \in Workers :
        (nworkers = w /\ Live(w) /\ cancelBy[w] = "") => streaming

\* C20: no close of a closed channel: only the receive loop closes, what it
\* closes is the installed channel, and that channel is not closed then.
C20_NoDoubleClose ==
    /\ []~panicked
    /\ [][closed' # closed =>
            /\ rlPc \in {"startLock", "stopLock"} /\ rlPc' \in {"startCS", "stopCS"}
            /\ stopCh \notin closed
            /\ closed' = closed \cup {stopCh}]_vars

C20_Witness ==
    /\ Cardinality(closed) = 2
    /\ ~panicked
    /\ rlPc = "stopCS"

\* C21: every streamAudio goroutine that was spawned returns, and it returns
\* in one of these ways: after "Error: File ... not found" or "Error opening
\* audio file", from the select on a closed channel, or through
\* client.streaming = false (io.EOF, read error, write error).
C21_WorkersTerminate ==
    /\ \A w \in Workers : (wpc[w] # "idle") ~> (wpc[w] = "done")
    /\ [][\A w \in Workers : Exits(w) =>
            \/ wpc[w] = "stWrite" /\ wst[w] \in {StNotFound(wfile[w]), StOpenErr}
            \/ wpc[w] = "poll" /\ wch[w] \in closed
            \/ wpc[w] = "setFalse"]_vars

C21_Witness ==
    /\ wpc[1] = "done" /\ wpc[2] = "done"
    /\ cancelBy[1] = "start" /\ ~Emitted(1, StFinished)
    /\ Emitted(2, StFinished)

\* C22: a frame that is not a text frame, and a message whose action is
\* neither "start" nor "stop", change nothing: the step that handles it
\* returns to ReadMessage and writes no frame, leaves client.streaming,
\* client.stopCh and the closed channels as they are, takes no lock, spawns no
\* goroutine and cancels none.
OtherInHand ==
    /\ rlPc = "dispatch"
    /\ \/ rlMsg.mt = "binary"
       \/ rlMsg.mt = "text" /\ rlMsg.msg # Malformed
                            /\ rlMsg.msg.action \notin {"start", "stop"}

C22_OtherMessagesIgnored ==
    /\ [](OtherInHand => ENABLED RLIgnore)
    /\ [][(OtherInHand /\ rlPc' # rlPc) =>
            /\ rlPc' = "read"
            /\ UNCHANGED <<streaming, stopCh, closed, mu, out, nworkers, wpc, cancelBy>>]_vars

C22_Witness ==
    /\ OtherInHand
    /\ rlMsg.mt = "text"
    /\ streaming
    /\ \E w \in Workers : wpc[w] = "binWrite" /\ cancelBy[w] = ""

\* C23: the single-shot handler of src/backend/main.go.
\* the handler has returned after it read the peer's first frame
BackendServed == backend.pc = "returned" /\ backend.reads = 1

\* the frames are chunks of the file in order: each of 1..BackendChunkSize
\* bytes, together a prefix of the file, the whole file if no write failed
BackendChunksOf(f) ==
    LET frames == backend.out
        bytes == Flatten([i \in 1..Len(frames) |-> frames[i].payload])
    IN  /\ \A i \in 1..Len(frames) :
            /\ frames[i].mt = "binary"
            /\ Len(frames[i].payload) \in 1..BackendChunkSize
        /\ Len(bytes) <= Len(StaticAudio[f])
        /\ bytes = SubSeq(StaticAudio[f], 1, Len(bytes))
        /\ (\A i \in 1..Len(frames) : frames[i].ok) => bytes = StaticAudio[f]

\* only the first frame is read and its payload is the file name
BackendReadsOnce ==
    /\ backend.reads <= 1
    /\ backend.reads = 1 =>
        /\ backend.fileName = backend.sent[1].payload
        /\ backend.inbox = Tail(backend.sent)

\* a missing file: the one frame "Error: File not found"
BackendMissing ==
    (BackendServed /\ ~StatOk(backend.fileName)) =>
        /\ Len(backend.out) = 1
        /\ backend.out[1].mt = "text"
        /\ backend.out[1].payload = BackendErrNotFound

\* no write is attempted after one that failed, and none after the return
BackendStopsAtError ==
    /\ [](\A i \in 1..Len(backend.out) : ~backend.out[i].ok => i = Len(backend.out))
    /\ [](backend.pc = "returned" => backend.closed)
    /\ [][backend.pc = "returned" => backend' = backend]_vars

C24_InstalledChannelOpen ==
    rlPc \notin {"startCS", "stopCS"} => stopCh \notin closed

C24_Witness ==
    /\ rlPc = "stopStLock"
    /\ rlOld \in closed
    /\ stopCh \notin closed
    /\ \E w \in Workers : wpc[w] = "poll" /\ wch[w] = rlOld

====
